---- MODULE Spec2Model ----
(***************************************************************************)
(* A model of lab-5-transformers/lab5-code/train_cifar.py: the metric      *)
(* functions compute_accuracy and compute_per_class_accuracy, the run      *)
(* directory probe get_summary_writer_log_dir, and the Trainer's train /   *)
(* validate loop with its step counter, its model mode and the records it  *)
(* hands to the summary writer.                                            *)
(*                                                                         *)
(* Floating point values are kept as exact ratios [num, den]; a ratio with *)
(* den = 0 is what numpy produces for 0/0 (NaN).  Values computed by the   *)
(* network (losses, batch accuracies, timings) are not part of the model:  *)
(* a summary writer record keeps its tag, its step key and, for the        *)
(* "epoch" tag, the epoch it carries.                                      *)
(***************************************************************************)
EXTENDS Integers, Sequences, FiniteSets, TLC

VARIABLES
    \* ---- metric functions (compute_accuracy, compute_per_class_accuracy)
    labels,        \* the labels argument
    preds,         \* the preds argument
    accResult,     \* outcome of compute_accuracy, "pending" before the call
    pcaResult,     \* outcome of compute_per_class_accuracy, "pending" before
    \* ---- get_summary_writer_log_dir
    existing,      \* the run suffixes (after the prefix) of the paths that exist
    i,             \* the local i
    tb_log_dir,    \* the local tb_log_dir, as the suffix after the prefix
    dpc,           \* position in get_summary_writer_log_dir
    ret,           \* the returned path, as the suffix after the prefix
    \* ---- Trainer
    cfg,           \* the arguments of train and the two data loaders
    pc,            \* position in train / validate
    mode,          \* self.model.training: "train" or "eval"
    step,          \* self.step
    epoch,         \* the loop variable epoch of train
    it,            \* batches of self.train_loader consumed in this epoch
    vit,           \* batches of self.val_loader consumed in this validate
    results,       \* results["labels"] of validate
    sink,          \* what the summary writer was given, in order
    stdout,        \* the lines printed, in order
    exc,           \* the exception that ended train, "none" otherwise
    optSteps,      \* history: number of optimizer.step() calls
    obs,           \* history: the mode each processed batch ran in
    calls          \* history: the loop position at each call of validate

metricVars == <<labels, preds, accResult, pcaResult>>
dirVars == <<existing, i, tb_log_dir, dpc, ret>>
trainVars == <<cfg, pc, mode, step, epoch, it, vit, results, sink, stdout, exc,
               optSteps, obs, calls>>
vars == <<metricVars, dirVars, trainVars>>

\* ------------------------------------------------------------------ bounds
MaxLen == 3        \* longest label / prediction sequence
MaxLabel == 2      \* labels and predictions range over 0..MaxLabel
MaxTaken == 2      \* how far from 0, 10, 100 and the cap the first free suffix lies

\* --------------------------------------------------------------- helpers
SeqsUpTo(S, n) == UNION {[1..k -> S] : k \in 0..n}

Min(S) == CHOOSE x \in S : \A y \in S : x <= y

Max(S) == CHOOSE x \in S : \A y \in S : x >= y

Range(s) == {s[k] : k \in DOMAIN s}

\* ---------------------------------------------------------------- metrics
NoValue == [exc |-> "pending", num |-> 0, den |-> 0]

Raise(e) == [exc |-> e, num |-> 0, den |-> 0]

\* (labels == preds).sum(): the number of positions that agree
MatchCount(ls, ps) == Cardinality({k \in DOMAIN ls : ls[k] = ps[k]})

\* compute_accuracy without its assert, over the common prefix
compute_accuracy_truncating(ls, ps) ==
    LET n == IF Len(ls) <= Len(ps) THEN Len(ls) ELSE Len(ps)
    IN  IF n = 0
        THEN Raise("ZeroDivisionError")
        ELSE [exc |-> "none",
              num |-> Cardinality({k \in 1..n : ls[k] = ps[k]}),
              den |-> n]

\* compute_accuracy counting the positions that differ
compute_accuracy_mismatches(ls, ps) ==
    IF Len(ls) # Len(ps)
    THEN Raise("AssertionError")
    ELSE IF Len(ls) = 0
         THEN Raise("ZeroDivisionError")
         ELSE [exc |-> "none",
               num |-> Len(ls) - MatchCount(ls, ps),
               den |-> Len(ls)]

\* assert len(labels) == len(preds)
\* return float((labels == preds).sum()) / len(labels)
compute_accuracy(ls, ps) ==
    IF Len(ls) # Len(ps)
    THEN Raise("AssertionError")
    ELSE IF Len(ls) = 0
         THEN Raise("ZeroDivisionError")
         ELSE [exc |-> "none", num |-> MatchCount(ls, ps), den |-> Len(ls)]

\* len(np.unique(labels)): the number of distinct labels
UniqueCount(ls) == Cardinality(Range(ls))

\* the size a per-class table needs to hold every label: max label + 1
UniqueCountMaxPlusOne(ls) == IF Len(ls) = 0 THEN 0 ELSE Max(Range(ls)) + 1

\* The loop of compute_per_class_accuracy from position k on, with the
\* counters classes and f_v (functions on 0..n-1) as they stand.  Labels
\* are never negative, so an index outside 0..n-1 raises IndexError.
RECURSIVE PerClassLoop(_, _, _, _, _, _)
PerClassLoop(ls, ps, k, n, classes, f_v) ==
    IF k > Len(ls)
    THEN [exc |-> "none",
          ratios |-> [c \in 0..(n - 1) |-> [num |-> classes[c], den |-> f_v[c]]]]
    ELSE IF ls[k] >= n
         THEN [exc |-> "IndexError", ratios |-> <<>>]
         ELSE PerClassLoop(ls, ps, k + 1, n,
                  IF ls[k] = ps[k]
                  THEN [classes EXCEPT ![ls[k]] = @ + 1]
                  ELSE classes,
                  [f_v EXCEPT ![ls[k]] = @ + 1])

\* compute_per_class_accuracy with the table sized by the largest label
compute_per_class_accuracy_sized_by_max(ls, ps) ==
    IF Len(ls) # Len(ps)
    THEN [exc |-> "AssertionError", ratios |-> <<>>]
    ELSE LET n == UniqueCountMaxPlusOne(ls)
         IN  PerClassLoop(ls, ps, 1, n, [c \in 0..(n - 1) |-> 0],
                          [c \in 0..(n - 1) |-> 0])

compute_per_class_accuracy(ls, ps) ==
    IF Len(ls) # Len(ps)
    THEN [exc |-> "AssertionError", ratios |-> <<>>]
    ELSE LET n == UniqueCount(ls)
         IN  PerClassLoop(ls, ps, 1, n, [c \in 0..(n - 1) |-> 0],
                          [c \in 0..(n - 1) |-> 0])

PcaPending == [exc |-> "pending", ratios |-> <<>>]

MetricsIdle ==
    /\ labels = <<>>
    /\ preds = <<>>
    /\ accResult = NoValue
    /\ pcaResult = PcaPending

DirIdle ==
    /\ existing = {}
    /\ i = 0
    /\ tb_log_dir = <<>>
    /\ dpc = "idle"
    /\ ret = <<>>

TrainIdle ==
    /\ cfg = [epochs |-> 0, val_frequency |-> 1, print_frequency |-> 1,
              log_frequency |-> 1, start_epoch |-> 0, n_train |-> 0,
              val_loader |-> <<>>]
    /\ pc = "idle"
    /\ mode = "train"
    /\ step = 0
    /\ epoch = 0
    /\ it = 0
    /\ vit = 0
    /\ results = <<>>
    /\ sink = <<>>
    /\ stdout = <<>>
    /\ exc = "none"
    /\ optSteps = 0
    /\ obs = {}
    /\ calls = <<>>

MetricsInit ==
    /\ labels \in SeqsUpTo(0..MaxLabel, MaxLen)
    /\ preds \in SeqsUpTo(0..MaxLabel, MaxLen)
    /\ accResult = NoValue
    /\ pcaResult = PcaPending
    /\ DirIdle
    /\ TrainIdle

CallComputeAccuracy ==
    /\ accResult.exc = "pending"
    /\ accResult' = compute_accuracy(labels, preds)
    /\ UNCHANGED <<labels, preds, pcaResult, dirVars, trainVars>>

CallComputePerClassAccuracy ==
    /\ pcaResult.exc = "pending"
    /\ pcaResult' = compute_per_class_accuracy(labels, preds)
    /\ UNCHANGED <<labels, preds, accResult, dirVars, trainVars>>

MetricsNext == CallComputeAccuracy \/ CallComputePerClassAccuracy

SpecMetrics == MetricsInit /\ [][MetricsNext]_vars

\* ------------------------------------------------- run directory naming
\* while i < 1000
ProbeCap == 1000

\* str(i): the decimal digits of i, most significant first
RECURSIVE Str(_)
Str(n) == IF n < 10 THEN <<n>> ELSE Append(Str(n \div 10), n % 10)

\* the suffixes str(0) .. str(k-1)
Taken(k) == {Str(j) : j \in 0..(k - 1)}

\* Path.exists() of args.log_dir / (tb_log_dir_prefix + suffix)
Exists(suffix) == suffix \in existing

\* The file systems the probe is run against: the suffixes below k exist,
\* k itself does not, and any of a few further paths may: the two numbers
\* after k and a name that no str(i) produces ("_run_01").  k lies within
\* MaxTaken of 0, of a suffix that gains a digit, or of the cap; k above
\* the cap means that every probed path exists.
FirstFree ==
    {k \in 0..(ProbeCap + 1) :
        \E a \in {0, 10, 100, ProbeCap} : a - MaxTaken <= k /\ k <= a + MaxTaken}

Beyond(k) == {Str(k + 1), Str(k + 2), <<0, 1>>}

DirInit ==
    /\ \E k \in FirstFree : \E X \in SUBSET Beyond(k) : existing = Taken(k) \cup X
    /\ i = 0
    /\ tb_log_dir = <<>>
    /\ dpc = "entry"
    /\ ret = <<>>
    /\ MetricsIdle
    /\ TrainIdle

\* the loop condition tested one suffix too far
LoopCondInclusive(iv) == iv <= ProbeCap

\* while i < 1000:
LoopCond(iv) == iv < ProbeCap

\* i = 0; tb_log_dir = args.log_dir / (tb_log_dir_prefix + str(i))
DirEnter ==
    /\ dpc = "entry"
    /\ i' = 0
    /\ tb_log_dir' = Str(0)
    /\ dpc' = "loop"
    /\ UNCHANGED <<existing, ret, metricVars, trainVars>>

\* one pass of the loop body that finds the path free: return str(tb_log_dir)
DirProbeFree ==
    /\ dpc = "loop"
    /\ LoopCond(i)
    /\ ~Exists(Str(i))
    /\ tb_log_dir' = Str(i)
    /\ ret' = Str(i)
    /\ dpc' = "returned"
    /\ UNCHANGED <<existing, i, metricVars, trainVars>>

\* one pass of the loop body that finds the path taken: i += 1
DirProbeTaken ==
    /\ dpc = "loop"
    /\ LoopCond(i)
    /\ Exists(Str(i))
    /\ tb_log_dir' = Str(i)
    /\ i' = i + 1
    /\ UNCHANGED <<existing, dpc, ret, metricVars, trainVars>>

\* the loop ran out: return str(tb_log_dir), the last path probed
DirExhausted ==
    /\ dpc = "loop"
    /\ ~LoopCond(i)
    /\ ret' = tb_log_dir
    /\ dpc' = "returned"
    /\ UNCHANGED <<existing, i, tb_log_dir, metricVars, trainVars>>

DirNext == DirEnter \/ DirProbeFree \/ DirProbeTaken \/ DirExhausted

SpecDir == DirInit /\ [][DirNext]_vars

\* ---------------------------------------------------------------- Trainer
MaxEpochs == 4       \* epochs ranges over 0..MaxEpochs
MaxStart == 1        \* start_epoch ranges over 0..MaxStart
MaxFreq == 3         \* val / log / print frequency range over 1..MaxFreq
MaxBatches == 2      \* len(train_loader) ranges over 1..MaxBatches
MaxValBatches == 2   \* len(val_loader) ranges over 1..MaxValBatches
MaxValLabel == 1     \* validation labels range over 0..MaxValLabel

\* The validation loaders: at least one batch (validate divides by
\* len(self.val_loader)), each batch holding one example, given by its label.
ValLoaders == SeqsUpTo({<<l>> : l \in 0..MaxValLabel}, MaxValBatches) \ {<<>>}

\* A Trainer as __init__ leaves it (self.step = 0, a freshly built module is
\* in training mode), about to be asked to train.  Both loaders are over
\* non-empty datasets, so each yields at least one batch per pass.
Init ==
    /\ cfg \in [epochs : 0..MaxEpochs,
                val_frequency : 1..MaxFreq,
                print_frequency : 1..MaxFreq,
                log_frequency : 1..MaxFreq,
                start_epoch : 0..MaxStart,
                n_train : 1..MaxBatches,
                val_loader : ValLoaders]
    /\ pc = "call"
    /\ mode = "train"
    /\ step = 0
    /\ epoch = cfg.start_epoch
    /\ it = 0
    /\ vit = 0
    /\ results = <<>>
    /\ sink = <<>>
    /\ stdout = <<>>
    /\ exc = "none"
    /\ optSteps = 0
    /\ obs = {}
    /\ calls = <<>>
    /\ MetricsIdle
    /\ DirIdle

Rec(tag, key, val) == [tag |-> tag, key |-> key, val |-> val]

\* log_metrics: five records, all keyed by self.step as it stands at the call
log_metrics(ep, key) ==
    << Rec("epoch", key, ep),
       Rec("accuracy/train", key, 0),
       Rec("loss/train", key, 0),
       Rec("time/data", key, 0),
       Rec("time/data", key, 0) >>

\* print_metrics: epoch_step = self.step % len(self.train_loader)
print_metrics(ep, s, n) ==
    [kind |-> "progress", epoch |-> ep, epoch_step |-> s % n, total |-> n]

\* the logging test taken on the counter before it counts this batch
LogDueZeroIndexed(s, f) == (s % f) = 0

\* if ((self.step + 1) % log_frequency) == 0
LogDue(s, f) == ((s + 1) % f) = 0

\* if ((self.step + 1) % print_frequency) == 0
PrintDue(s, f) == ((s + 1) % f) = 0

\* if ((epoch + 1) % val_frequency) == 0
ValDue(ep, f) == ((ep + 1) % f) = 0

\* self.model.train() on entry to train
TrainEnter ==
    /\ pc = "call"
    /\ mode' = "train"
    /\ epoch' = cfg.start_epoch
    /\ pc' = "epoch_head"
    /\ UNCHANGED <<cfg, step, it, vit, results, sink, stdout, exc, optSteps,
                   obs, calls, metricVars, dirVars>>

\* for epoch in range(start_epoch, epochs): self.model.train()
EpochBegin ==
    /\ pc = "epoch_head"
    /\ epoch < cfg.epochs
    /\ mode' = "train"
    /\ it' = 0
    /\ pc' = "batches"
    /\ UNCHANGED <<cfg, step, epoch, vit, results, sink, stdout, exc, optSteps,
                   obs, calls, metricVars, dirVars>>

\* the range is exhausted: train returns
TrainReturn ==
    /\ pc = "epoch_head"
    /\ epoch >= cfg.epochs
    /\ pc' = "done"
    /\ UNCHANGED <<cfg, mode, step, epoch, it, vit, results, sink, stdout, exc,
                   optSteps, obs, calls, metricVars, dirVars>>

\* One batch of the training loader: forward, loss, backward, optimizer
\* step, then the logging and printing tests, then the counter, which
\* becomes newStep.
TrainBatchWith(newStep) ==
    /\ pc = "batches"
    /\ it < cfg.n_train
    /\ obs' = obs \cup {<<"train", mode>>}
    /\ optSteps' = optSteps + 1
    /\ sink' = IF LogDue(step, cfg.log_frequency)
               THEN sink \o log_metrics(epoch, step)
               ELSE sink
    /\ stdout' = IF PrintDue(step, cfg.print_frequency)
                 THEN Append(stdout, print_metrics(epoch, step, cfg.n_train))
                 ELSE stdout
    /\ step' = newStep
    /\ it' = it + 1
    /\ UNCHANGED <<cfg, pc, mode, epoch, vit, results, exc, calls, metricVars,
                   dirVars>>

\* the counter kept per epoch
TrainBatchEpochLocalStep == TrainBatchWith(it + 1)

\* self.step += 1
TrainBatch == TrainBatchWith(step + 1)

\* The loader is exhausted: add_scalar("epoch", epoch, self.step), then
\* either call validate or go on to the next epoch.
EpochEnd ==
    /\ pc = "batches"
    /\ it = cfg.n_train
    /\ sink' = Append(sink, Rec("epoch", step, epoch))
    /\ IF ValDue(epoch, cfg.val_frequency)
       THEN /\ pc' = "validate"
            /\ calls' = Append(calls, [epoch |-> epoch, it |-> it])
            /\ epoch' = epoch
       ELSE /\ pc' = "epoch_head"
            /\ calls' = calls
            /\ epoch' = epoch + 1
    /\ UNCHANGED <<cfg, mode, step, it, vit, results, stdout, exc, optSteps,
                   obs, metricVars, dirVars>>

\* validate: results = {...}; total_loss = 0; the model is put in mode m
ValidateBeginWith(m) ==
    /\ pc = "validate"
    /\ results' = <<>>
    /\ vit' = 0
    /\ mode' = m
    /\ pc' = "val_batches"
    /\ UNCHANGED <<cfg, step, epoch, it, sink, stdout, exc, optSteps, obs,
                   calls, metricVars, dirVars>>

\* validate without its switch to evaluation mode
ValidateBeginNoEval == ValidateBeginWith(mode)

\* self.model.eval()
ValidateBegin == ValidateBeginWith("eval")

\* one batch of the validation loader: forward, loss, extend the results
ValidateBatch ==
    /\ pc = "val_batches"
    /\ vit < Len(cfg.val_loader)
    /\ obs' = obs \cup {<<"val", mode>>}
    /\ results' = results \o cfg.val_loader[vit + 1]
    /\ vit' = vit + 1
    /\ UNCHANGED <<cfg, pc, mode, step, epoch, it, sink, stdout, exc, optSteps,
                   calls, metricVars, dirVars>>

\* The validation loader is exhausted: the per-class accuracy of what was
\* gathered (the predictions are the network's, any sequence of classes as
\* long as the labels), the average loss, then two records under key.
ValidateEndWith(key) ==
    /\ pc = "val_batches"
    /\ vit = Len(cfg.val_loader)
    /\ \E ps \in [1..Len(results) -> 0..MaxValLabel] :
         LET accuracy == compute_per_class_accuracy(results, ps)
         IN  IF accuracy.exc # "none"
             THEN /\ exc' = accuracy.exc
                  /\ pc' = "failed"
                  /\ UNCHANGED <<sink, stdout>>
             ELSE IF Len(cfg.val_loader) = 0
                  THEN /\ exc' = "ZeroDivisionError"
                       /\ pc' = "failed"
                       /\ UNCHANGED <<sink, stdout>>
                  ELSE /\ sink' = sink \o << Rec("accuracy/test", key, 0),
                                             Rec("loss/test", key, 0) >>
                       /\ stdout' = Append(stdout,
                              [kind |-> "validation", epoch |-> 0,
                               epoch_step |-> 0, total |-> Len(cfg.val_loader)])
                       /\ pc' = "val_return"
                       /\ exc' = exc
    /\ UNCHANGED <<cfg, mode, step, epoch, it, vit, results, optSteps, obs,
                   calls, metricVars, dirVars>>

\* validate writing its records one step ahead
ValidateEndNextKey == ValidateEndWith(step + 1)

\* add_scalars(..., self.step)
ValidateEnd == ValidateEndWith(step)

\* back in train after validate: self.model.train(), then the next epoch
ValidateReturn ==
    /\ pc = "val_return"
    /\ mode' = "train"
    /\ epoch' = epoch + 1
    /\ pc' = "epoch_head"
    /\ UNCHANGED <<cfg, step, it, vit, results, sink, stdout, exc, optSteps,
                   obs, calls, metricVars, dirVars>>

Next ==
    \/ TrainEnter
    \/ EpochBegin
    \/ TrainBatch
    \/ EpochEnd
    \/ ValidateBegin
    \/ ValidateBatch
    \/ ValidateEnd
    \/ ValidateReturn
    \/ TrainReturn

Spec == Init /\ [][Next]_vars

\* ================================================================ claims
\* The sequence of loop positions at which train with epochs = e,
\* val_frequency = v, start_epoch = 0 and n batches per epoch is claimed
\* to call validate: after all n batches of epochs v-1, 2v-1, ...
ExpectedCalls(e, v, n) ==
    [k \in 1..(e \div v) |-> [epoch |-> k * v - 1, it |-> n]]

Finished == pc \in {"done", "failed"}

\* C1: with start_epoch = 0, validate is invoked exactly floor(E/V) times
\* over the whole run, each time after all the batches of an epoch with
\* index V-1, 2V-1, ..., and at no other place.
C1_ValidateCalls ==
    cfg.start_epoch = 0 =>
        /\ \A k \in DOMAIN calls :
             /\ calls[k].it = cfg.n_train
             /\ ValDue(calls[k].epoch, cfg.val_frequency)
        /\ Finished =>
             calls = ExpectedCalls(cfg.epochs, cfg.val_frequency, cfg.n_train)

\* What the code does keep of C1: when train returns, the calls are the
\* claimed ones; a run that validate ends with an exception has made a
\* prefix of them.
C1_ValidateCallsWhenTrainReturns ==
    cfg.start_epoch = 0 =>
        LET want == ExpectedCalls(cfg.epochs, cfg.val_frequency, cfg.n_train)
        IN  /\ Len(calls) <= Len(want)
            /\ calls = SubSeq(want, 1, Len(calls))
            /\ pc = "done" => calls = want

\* The batches train has processed so far, read off the position of its two
\* loops: the completed epochs' batches and those consumed in this epoch.
BatchesProcessed ==
    CASE pc = "call" -> 0
      [] pc \in {"epoch_head", "done"} -> (epoch - cfg.start_epoch) * cfg.n_train
      [] OTHER -> (epoch - cfg.start_epoch) * cfg.n_train + it

\* C2: the step counter starts at 0 and equals the number of training
\* batches processed so far, across epoch boundaries and validations; when
\* train returns it equals the total number of batches of the run.
C2_StepCountsBatches ==
    /\ pc = "call" => step = 0
    /\ step = BatchesProcessed
    /\ step = optSteps
    /\ pc = "done" =>
         step = (IF cfg.epochs > cfg.start_epoch
                 THEN cfg.epochs - cfg.start_epoch ELSE 0) * cfg.n_train

C2_Witness ==
    /\ pc = "done"
    /\ cfg.n_train >= 2
    /\ cfg.epochs - cfg.start_epoch >= 2
    /\ Len(calls) >= 1
    /\ step = (cfg.epochs - cfg.start_epoch) * cfg.n_train

TrainTags == {"accuracy/train", "loss/train", "time/data"}

Added(old, new) == SubSeq(new, Len(old) + 1, Len(new))

\* C7: every processed batch increments the step counter; the metrics
\* are emitted on exactly the batches whose ordinal (the counter after the
\* increment) is a multiple of log_frequency, a progress line is printed on
\* exactly those whose ordinal is a multiple of print_frequency, and no
\* other step of train emits either.
C7_LogAndPrintCadence ==
    [][ /\ optSteps' = optSteps + 1 =>
            /\ step' = step + 1
            /\ (Added(sink, sink') = log_metrics(epoch, step))
                  <=> (step' % cfg.log_frequency = 0)
            /\ (Added(sink, sink') = <<>>)
                  <=> (step' % cfg.log_frequency # 0)
            /\ (Added(stdout, stdout')
                    = <<print_metrics(epoch, step, cfg.n_train)>>)
                  <=> (step' % cfg.print_frequency = 0)
            /\ (Added(stdout, stdout') = <<>>)
                  <=> (step' % cfg.print_frequency # 0)
        /\ optSteps' = optSteps =>
            /\ \A r \in Range(Added(sink, sink')) : r.tag \notin TrainTags
            /\ \A l \in Range(Added(stdout, stdout')) : l.kind # "progress"
      ]_vars

\* train has returned with different log and print frequencies, having
\* logged a batch it did not print and printed a batch of a later epoch
C7_Witness ==
    /\ cfg.log_frequency # cfg.print_frequency
    /\ \E r \in Range(sink) : r.tag = "accuracy/train" /\ (r.key + 1) % cfg.print_frequency # 0
    /\ \E l \in Range(stdout) : l.kind = "progress" /\ l.epoch >= 1
    /\ pc = "done"

\* C8: every training batch runs with the model in training mode and every
\* validation batch with the model in evaluation mode; wherever a training
\* batch can be taken next the model is in training mode, also right after a
\* validation.
C8_ModeMatchesPhase ==
    /\ \A o \in obs : (o[1] = "train" => o[2] = "train")
                      /\ (o[1] = "val" => o[2] = "eval")
    /\ pc = "batches" => mode = "train"
    /\ pc = "val_batches" => mode = "eval"

\* a training batch was processed in an epoch that follows a validation
C8_Witness ==
    /\ Len(calls) >= 1
    /\ <<"val", "eval">> \in obs
    /\ pc = "batches"
    /\ it >= 1
    /\ epoch > calls[1].epoch

InValidate == pc \in {"validate", "val_batches"}

\* C9: no step of validate changes the step counter or the epoch or makes
\* an optimizer update, and every record validate writes is keyed by that
\* step counter.
C9_ValidateFrame ==
    [][ InValidate =>
            /\ step' = step
            /\ epoch' = epoch
            /\ optSteps' = optSteps
            /\ \A r \in Range(Added(sink, sink')) : r.key = step
      ]_vars

\* validate has returned after writing its records, with batches behind it
C9_Witness ==
    /\ pc = "val_return"
    /\ step >= 2
    /\ epoch >= 1
    /\ Len(sink) >= 2
    /\ sink[Len(sink)].tag = "loss/test"
    /\ sink[Len(sink)].key = step

EpochRecords == SelectSeq(sink, LAMBDA r : r.tag = "epoch")

\* C10: the step keys of the "epoch" records never decrease, and no two
\* "epoch" records share a step key while carrying different epochs.
C10_EpochRecordsConsistent ==
    LET e == EpochRecords
    IN  /\ \A k \in 1..(Len(e) - 1) : e[k].key <= e[k + 1].key
        /\ \A j, k \in DOMAIN e : e[j].key = e[k].key => e[j].val = e[k].val

\* What the code does keep of C10: the keys never decrease.
C10_EpochKeysNeverDecrease ==
    LET e == EpochRecords
    IN  \A k \in 1..(Len(e) - 1) : e[k].key <= e[k + 1].key

\* ------------------------------------------------------ claims: metrics
AccCalled == accResult.exc # "pending"

AllMatch == \A k \in DOMAIN labels : labels[k] = preds[k]

NoneMatch == \A k \in DOMAIN labels : labels[k] # preds[k]

\* the result is a value v with 0 <= v <= 1, v = 1 iff every position
\* matches and v = 0 iff none does
AccuracyAsClaimed ==
    /\ accResult.exc = "none"
    /\ accResult.den > 0
    /\ 0 <= accResult.num
    /\ accResult.num <= accResult.den
    /\ (accResult.num = accResult.den) <=> AllMatch
    /\ (accResult.num = 0) <=> NoneMatch

\* C4 as stated: for equal-length sequences of every length, 0 included,
\* compute_accuracy returns a value in [0,1] that is 1.0 iff all positions
\* match and 0.0 iff none does.
C4_AccuracyAnyLength ==
    (AccCalled /\ Len(labels) = Len(preds)) => AccuracyAsClaimed

\* C4 amended: the same for equal-length sequences of length at least 1;
\* on two empty sequences compute_accuracy raises ZeroDivisionError.
C4_AccuracyNonEmpty ==
    (AccCalled /\ Len(labels) = Len(preds)) =>
        IF Len(labels) >= 1
        THEN AccuracyAsClaimed
        ELSE accResult = Raise("ZeroDivisionError")

\* some positions match and some do not
C4_Witness ==
    /\ AccCalled
    /\ Len(labels) = Len(preds)
    /\ Len(labels) >= 2
    /\ ~AllMatch
    /\ ~NoneMatch
    /\ accResult.exc = "none"
    /\ 0 < accResult.num
    /\ accResult.num < accResult.den

\* C6: with sequences of different lengths compute_accuracy raises the
\* assertion's error and yields no value, whatever the common prefix holds.
C6_MismatchedLengthsFail ==
    (AccCalled /\ Len(labels) # Len(preds)) => accResult = Raise("AssertionError")

\* the lengths differ and the common prefix is not empty
C6_Witness ==
    /\ AccCalled
    /\ Len(labels) # Len(preds)
    /\ Len(labels) >= 1
    /\ Len(preds) >= 1
    /\ accResult.exc = "AssertionError"

CountLabel(c) == Cardinality({k \in DOMAIN labels : labels[k] = c})

CountCorrect(c) == Cardinality({k \in DOMAIN labels : labels[k] = c /\ preds[k] = c})

\* C5: for equal-length labels and predictions, M the largest label, the
\* call does not fail and returns one ratio for each class 0..M: correct
\* predictions of the class over occurrences of the class (0/0 for a class
\* that does not occur).
C5_PerClassEveryClass ==
    (pcaResult.exc # "pending" /\ Len(labels) = Len(preds) /\ Len(labels) >= 1) =>
        /\ pcaResult.exc = "none"
        /\ DOMAIN pcaResult.ratios = 0..Max(Range(labels))
        /\ \A c \in 0..Max(Range(labels)) :
              pcaResult.ratios[c] = [num |-> CountCorrect(c), den |-> CountLabel(c)]

\* What the code does keep of C5: when every class 0..M occurs the result
\* is the claimed one, and when one is missing the call raises IndexError.
C5_PerClassWhenContiguous ==
    (pcaResult.exc # "pending" /\ Len(labels) = Len(preds) /\ Len(labels) >= 1) =>
        IF Range(labels) = 0..Max(Range(labels))
        THEN /\ pcaResult.exc = "none"
             /\ DOMAIN pcaResult.ratios = 0..Max(Range(labels))
             /\ \A c \in 0..Max(Range(labels)) :
                   pcaResult.ratios[c] =
                       [num |-> CountCorrect(c), den |-> CountLabel(c)]
        ELSE pcaResult.exc = "IndexError"

\* With the table sized by the largest label instead of by the number of
\* distinct labels, the function computes what C5 states.
C5_HoldsWhenSizedByMax ==
    (Len(labels) = Len(preds) /\ Len(labels) >= 1) =>
        LET r == compute_per_class_accuracy_sized_by_max(labels, preds)
        IN  /\ r.exc = "none"
            /\ DOMAIN r.ratios = 0..Max(Range(labels))
            /\ \A c \in 0..Max(Range(labels)) :
                  r.ratios[c] = [num |-> CountCorrect(c), den |-> CountLabel(c)]

\* ---------------------------------------------------- claims: directory
FreeSuffixes == {j \in 0..(ProbeCap - 1) : ~Exists(Str(j))}

====
